---- MODULE Spec2Model ----
(***************************************************************************)
(* ios-triage (index.js): the extraction orchestrator (extractArtifacts     *)
(* and the capture tasks it spawns) and the process command                 *)
(* (processArtifacts, the six normalizers, readProcessedJSON, findIssues,   *)
(* generateReport), as state machines over the events Node delivers.        *)
(*                                                                          *)
(* Library behaviour the code relies on:                                    *)
(*  - async.parallel / async.series (async 2.x): every task callback is     *)
(*    wrapped by onlyOnce, which throws "Callback was already called." on a *)
(*    second invocation; the final callback is wrapped by once and runs on   *)
(*    the first error or when every task has called back.                   *)
(*  - child_process: stdout 'end' is emitted before the child's 'close';    *)
(*    execFile arms a kill timer only when options.timeout > 0 and kills    *)
(*    the child when its buffered stdout exceeds maxBuffer.                 *)
(*  - an exception thrown inside an event handler, and an 'error' event     *)
(*    with no listener, end the node process (index.js installs no         *)
(*    uncaughtException handler).                                           *)
(***************************************************************************)
EXTENDS Naturals, Integers, Sequences, FiniteSets, TLC

VARIABLES
    \* ---- extract command
    options,          \* [backup, syslogTimeout] as commander hands them over
    caseSensitive,    \* the file system of <dir> tells file names apart by case
    nChunks,          \* number of 'data' events idevice_id has delivered
    udidTotal,        \* length of idevice_id's complete standard output so far
    retval,           \* getUDID's retval, by its length
    udidStatus,       \* "pending" | "ok" | "failed"
    udidError,        \* "none" | "NoAuthorizedDevice" | "Other"
    errorCarried,     \* length of the output carried by the "Other" error
    wdCreated,        \* setWorkingDirectory has run
    spawnLog,         \* the external processes spawned, in spawn order
    procState,        \* per process: "none" | "running" | "ended" | "closed"
    exitCode,         \* per process: -1 until 'close', then its exit status
    called,           \* async.parallel: the task's callback has been invoked
    results,          \* async.parallel: results[key]: "none" | "value" | "undefined"
    finalCalled,      \* async.parallel: the final callback has run
    finalErr,         \* the err the final callback received: "none" or a task key
    syslogSignalled,  \* idevicesyslog.kill('SIGINT') was called
    timerArmed,       \* execFile armed its timeout timer for idevicesyslog
    extractCb,        \* extractArtifacts' callback: "none" | "error" | "complete"
    crashed,          \* the extract command died of an uncaught exception
    \* ---- process and report commands
    artifactsDir,     \* <dir>/artifacts exists
    raw,              \* per artifact type: "ok" | "missing" | "malformed"
    cmd,              \* "idle" | "process" | "exit1" | "crashed" | "done"
    norm,             \* per normalizer: "idle" | "reading" | "writing" | "done" | "failed"
    pfile,            \* per processed file: "absent" | "full" | "degraded" | "corrupt"
    paCallback,       \* processArtifacts' callback: "none" | the err it passed
    issuesState,      \* findIssues: "none" | "writing" | "done" | "threw"
    issuesData,       \* the record keys findIssues got from readProcessedJSON
    reportCb,         \* generateReport's callback: "none" | "error" | "saved"
    reportData,       \* the record keys generateReport handed to the templates
    \* ---- one normalizer, or findIssues, applied to one input
    unit,             \* the function applied: "none" or one of Units
    rawInput,         \* what it reads: a raw artifact, for findIssues a processed snapshot
    onDisk,           \* the record file it writes, [exists |-> FALSE] until written
    before,           \* the record file as the latest run found it
    cbErrs,           \* the err arguments its callback was invoked with, in order
    runs,             \* the number of runs made on rawInput
    died              \* the latest run ended in an uncaught exception

extractVars == <<options, caseSensitive, nChunks, udidTotal, retval, udidStatus, udidError,
                 errorCarried, wdCreated, spawnLog, procState, exitCode, called,
                 results, finalCalled, finalErr, syslogSignalled, timerArmed,
                 extractCb, crashed>>

processVars == <<artifactsDir, raw, cmd, norm, pfile, paCallback, issuesState,
                 issuesData, reportCb, reportData>>

unitVars == <<unit, rawInput, onDisk, before, cbErrs, runs, died>>

vars == <<extractVars, processVars, unitVars>>

----------------------------------------------------------------------------
(* Bounds *)

\* the number of ideviceinfo domains modelled (the code lists 30)
NumDomains == 2

\* the largest number of 'data' events idevice_id's output arrives in
MaxChunks == 2

\* the largest number of application records, directory entries or transcript
\* lines a raw artifact holds
MaxItems == 2

\* the largest number of times a normalizer is run on the same raw artifact
MaxRuns == 2

\* the largest value of a counter in a processed snapshot handed to findIssues
MaxCount == 2

----------------------------------------------------------------------------
(* Extract: constants and pure helpers *)

\* retval.length === 41
UdidLen == 41

\* lengths a single stdout chunk of idevice_id can have in the model: two
\* fragments of an identifier line, and a whole identifier line
ChunkLens == {20, 21, UdidLen}

Undefined == "undefined"

\* values of options.syslogTimeout: absent, or the string commander parsed
SyslogTimeoutValues == {Undefined, "0", "1"}

\* Number(syslogTimeout) for the strings above
NumberOf(s) == IF s = "1" THEN 1 ELSE 0

\* if (syslogTimeout) { userTimeout = Number(syslogTimeout) * 1000 }
UserTimeout(s) == IF s # Undefined /\ s # "" THEN NumberOf(s) * 1000 ELSE 0

Syslog    == <<"idevicesyslog", 0>>
InfoProc(d) == <<"ideviceinfo", d>>
AppsProc  == <<"ideviceinstaller", 0>>
ProvProc  == <<"ideviceprovision", 0>>
CrashProc == <<"idevicecrashreport", 0>>
BackupProc == <<"idevicebackup2", 0>>

Domains == 1..NumDomains
InfoProcs == {InfoProc(d) : d \in Domains}
TaskProcs == {AppsProc, ProvProc, CrashProc, BackupProc}
BoundedProcs == InfoProcs \cup TaskProcs
Procs == {Syslog} \cup BoundedProcs

\* the keys of the object handed to async.parallel
Tasks == {"backup", "deviceInfo", "installedApps", "provisioningProfiles", "crashReports"}

TaskOf(p) ==
    CASE p = AppsProc   -> "installedApps"
      [] p = ProvProc   -> "provisioningProfiles"
      [] p = CrashProc  -> "crashReports"
      [] p = BackupProc -> "backup"

SeqToSet(s) == {s[i] : i \in 1..Len(s)}

\* if (retval.length === 41)
getUDID_ok(rv) == rv = UdidLen

\* the error getUDID passes when the length test fails
getUDID_err(rv) == IF rv = 0 THEN "NoAuthorizedDevice" ELSE "Other"

\* a variant: extraction goes on after a failed resolution
ProceedAlways(ok) == TRUE

\* if (err) { return callback(new Error(err)); }
ProceedAfterUDID(ok) == ok

\* a variant: the streaming task is spawned after the bounded ones
SpawnOrderSyslogLast(backup) ==
    (IF backup THEN <<BackupProc>> ELSE <<>>)
      \o [i \in 1..NumDomains |-> InfoProc(i)]
      \o <<AppsProc, ProvProc, CrashProc, Syslog>>

\* getDeviceSyslog first, then the async.parallel tasks in key order:
\* backup, deviceInfo (domains.forEach), installedApps,
\* provisioningProfiles, crashReports
SpawnOrder(backup) ==
    <<Syslog>>
      \o (IF backup THEN <<BackupProc>> ELSE <<>>)
      \o [i \in 1..NumDomains |-> InfoProc(i)]
      \o <<AppsProc, ProvProc, CrashProc>>

\* the callbacks invoked synchronously while async.parallel starts its tasks:
\* backup's callback() when no backup was requested, and getDeviceInfo's
\* callback right after its forEach
SyncCalled(backup) == [t \in Tasks |-> t = "deviceInfo" \/ (t = "backup" /\ ~backup)]

SyncResults(backup) ==
    [t \in Tasks |->
        IF t = "deviceInfo" THEN "value"
        ELSE IF t = "backup" /\ ~backup THEN "undefined"
        ELSE "none"]

\* a variant: idevicesyslog is signalled whatever the options
KillSyslogAlways(opts) == TRUE

\* if (options.syslogTimeout === undefined) idevicesyslog.kill('SIGINT')
KillSyslog(opts) == opts.syslogTimeout = Undefined

\* four of the 29 entries of getDeviceInfo's domains array, the two that
\* differ only in letter case first; each entry gets its own process and file,
\* so their order in the array does not matter here
DomainList == <<"com.apple.purplebuddy", "com.apple.PurpleBuddy", "", "com.apple.disk_usage">>

\* the raw artifact file each capture process's standard output is written to,
\* relative to <wd>/artifacts
OutFile(p) ==
    CASE p = Syslog     -> "syslog.txt"
      [] p = AppsProc   -> "installed-apps.xml"
      [] p = ProvProc   -> "pprofilesideviceprovision.log"
      [] p = CrashProc  -> "crash_reports/crashlogs.txt"
      [] p = BackupProc -> "backup/backup_log.txt"
      [] OTHER          -> IF DomainList[p[2]] = ""
                           THEN "ideviceinfo.xml"
                           ELSE "ideviceinfo-" \o DomainList[p[2]] \o ".xml"

\* the name under which a file system that ignores case keeps a file
FoldCase(name) ==
    IF name = "ideviceinfo-com.apple.PurpleBuddy.xml"
    THEN "ideviceinfo-com.apple.purplebuddy.xml"
    ELSE name

\* the file fs.createWriteStream(name) opens
FileOpened(name) == IF caseSensitive THEN name ELSE FoldCase(name)

\* the processed file each normalizer, and findIssues, writes
ProcessedFile(a) == a \o ".json"

----------------------------------------------------------------------------
(* Extract: async.parallel *)

\* The callback async.parallel hands task t, invoked with (err, value).
\* results[key] is assigned before the onlyOnce guard is reached.
TaskCallback(t, isErr) ==
    /\ results' = [results EXCEPT ![t] = IF isErr THEN "undefined" ELSE "value"]
    /\ IF called[t]
       THEN \* onlyOnce: throw new Error('Callback was already called.')
            /\ crashed' = TRUE
            /\ UNCHANGED <<called, finalCalled, finalErr, syslogSignalled, extractCb>>
       ELSE /\ called' = [called EXCEPT ![t] = TRUE]
            /\ crashed' = crashed
            /\ IF ~finalCalled /\ (isErr \/ \A u \in Tasks \ {t} : called[u])
               THEN \* the final callback of extractArtifacts
                    /\ finalCalled' = TRUE
                    /\ finalErr' = IF isErr THEN t ELSE "none"
                    /\ syslogSignalled' = KillSyslog(options)
                    /\ extractCb' = "complete"
               ELSE UNCHANGED <<finalCalled, finalErr, syslogSignalled, extractCb>>

NoTaskCallback ==
    UNCHANGED <<called, results, finalCalled, finalErr, syslogSignalled, extractCb, crashed>>

----------------------------------------------------------------------------
(* Extract: actions *)

ExtractInit ==
    /\ options \in [backup : BOOLEAN, syslogTimeout : SyslogTimeoutValues]
    /\ caseSensitive \in BOOLEAN
    /\ nChunks = 0
    /\ udidTotal = 0
    /\ retval = 0
    /\ udidStatus = "pending"
    /\ udidError = "none"
    /\ errorCarried = 0
    /\ wdCreated = FALSE
    /\ spawnLog = <<>>
    /\ procState = [p \in Procs |-> "none"]
    /\ exitCode = [p \in Procs |-> -1]
    /\ called = [t \in Tasks |-> FALSE]
    /\ results = [t \in Tasks |-> "none"]
    /\ finalCalled = FALSE
    /\ finalErr = "none"
    /\ syslogSignalled = FALSE
    /\ timerArmed = FALSE
    /\ extractCb = "none"
    /\ crashed = FALSE

\* udid.stdout.on('data'): retval = chunk
UdidData(c) ==
    /\ udidStatus = "pending"
    /\ nChunks < MaxChunks
    /\ nChunks' = nChunks + 1
    /\ udidTotal' = udidTotal + c
    /\ retval' = c
    /\ UNCHANGED <<options, caseSensitive, udidStatus, udidError, errorCarried, wdCreated, spawnLog,
                   procState, exitCode, called, results, finalCalled, finalErr,
                   syslogSignalled, timerArmed, extractCb, crashed>>
    /\ UNCHANGED <<processVars, unitVars>>

\* udid.on('close'), and through getUDID's callback the body of
\* extractArtifacts: setWorkingDirectory, getDeviceSyslog, async.parallel
UdidClose ==
    /\ udidStatus = "pending"
    /\ LET ok == getUDID_ok(retval) IN
         /\ udidStatus' = IF ok THEN "ok" ELSE "failed"
         /\ udidError' = IF ok THEN "none" ELSE getUDID_err(retval)
         /\ errorCarried' = IF ok THEN 0 ELSE retval
         /\ extractCb' = IF ok THEN "none" ELSE "error"
         /\ IF ProceedAfterUDID(ok)
            THEN /\ wdCreated' = TRUE
                 /\ spawnLog' = SpawnOrder(options.backup)
                 /\ procState' = [p \in Procs |->
                        IF p \in SeqToSet(SpawnOrder(options.backup))
                        THEN "running" ELSE "none"]
                 /\ timerArmed' = (UserTimeout(options.syslogTimeout) > 0)
                 /\ called' = SyncCalled(options.backup)
                 /\ results' = SyncResults(options.backup)
            ELSE UNCHANGED <<wdCreated, spawnLog, procState, timerArmed, called, results>>
    /\ UNCHANGED <<options, caseSensitive, nChunks, udidTotal, retval, exitCode, finalCalled,
                   finalErr, syslogSignalled, crashed>>
    /\ UNCHANGED <<processVars, unitVars>>

\* <child>.stdout.on('end') of a bounded process: file.end(), and for the four
\* task processes callback(null, <child>)
ProcEnd(p) ==
    /\ ~crashed
    /\ procState[p] = "running"
    /\ procState' = [procState EXCEPT ![p] = "ended"]
    /\ IF p \in TaskProcs THEN TaskCallback(TaskOf(p), FALSE) ELSE NoTaskCallback
    /\ UNCHANGED <<options, caseSensitive, nChunks, udidTotal, retval, udidStatus, udidError,
                   errorCarried, wdCreated, spawnLog, exitCode, timerArmed>>
    /\ UNCHANGED <<processVars, unitVars>>

\* <child>.on('close', code) of a bounded process: a non-zero code is logged
\* for ideviceinfo and passed to the task's callback for the four task processes
ProcClose(p, code) ==
    /\ ~crashed
    /\ procState[p] = "ended"
    /\ procState' = [procState EXCEPT ![p] = "closed"]
    /\ exitCode' = [exitCode EXCEPT ![p] = code]
    /\ IF p \in TaskProcs /\ code # 0 THEN TaskCallback(TaskOf(p), TRUE) ELSE NoTaskCallback
    /\ UNCHANGED <<options, caseSensitive, nChunks, udidTotal, retval, udidStatus, udidError,
                   errorCarried, wdCreated, spawnLog, timerArmed>>
    /\ UNCHANGED <<processVars, unitVars>>

SyslogExit(code) ==
    /\ procState' = [procState EXCEPT ![Syslog] = "closed"]
    /\ exitCode' = [exitCode EXCEPT ![Syslog] = code]
    /\ UNCHANGED <<options, caseSensitive, nChunks, udidTotal, retval, udidStatus, udidError,
                   errorCarried, wdCreated, spawnLog, called, results, finalCalled,
                   finalErr, syslogSignalled, timerArmed, extractCb, crashed>>
    /\ UNCHANGED <<processVars, unitVars>>

\* idevicesyslog receives the SIGINT sent by the final callback and exits
SyslogSigint ==
    /\ syslogSignalled
    /\ procState[Syslog] = "running"
    /\ SyslogExit(1)

\* execFile's timeout timer fires and kills idevicesyslog
SyslogTimeout ==
    /\ ~crashed
    /\ timerArmed
    /\ procState[Syslog] = "running"
    /\ SyslogExit(1)

\* idevicesyslog's buffered stdout exceeds maxBuffer (5000 * 1024): execFile kills it
SyslogMaxBuffer ==
    /\ ~crashed
    /\ procState[Syslog] = "running"
    /\ SyslogExit(1)

\* once the node process has died the read end of idevicesyslog's stdout pipe is
\* closed: the next line it writes raises SIGPIPE and ends it
SyslogOrphaned ==
    /\ crashed
    /\ procState[Syslog] = "running"
    /\ SyslogExit(1)

Next ==
    \/ \E c \in ChunkLens : UdidData(c)
    \/ UdidClose
    \/ \E p \in BoundedProcs : ProcEnd(p)
    \/ \E p \in BoundedProcs, code \in {0, 1} : ProcClose(p, code)
    \/ SyslogSigint
    \/ SyslogTimeout
    \/ SyslogMaxBuffer
    \/ SyslogOrphaned

\* the events that are bound to happen: the tool's output ends, every bounded
\* process ends and exits, a signalled or timed idevicesyslog exits
ExtractProgress ==
    \/ UdidClose
    \/ \E p \in BoundedProcs : ProcEnd(p)
    \/ \E p \in BoundedProcs, code \in {0, 1} : ProcClose(p, code)
    \/ SyslogSigint
    \/ SyslogTimeout
    \/ SyslogOrphaned

----------------------------------------------------------------------------
(* Process and report commands: helpers *)

\* the artifact types, one normalizer and one processed record file each
Artifacts == {"device", "apps", "pprofiles", "syslog", "crashreports", "backup"}

ProcessedFiles == Artifacts \cup {"issues"}

\* what the raw artifact of each type can be: "missing" is an absent file (for
\* pprofiles an absent directory); "malformed" is a profile that cannot be
\* parsed (pprofiles) or a crash log naming a file that cannot be read
\* (crashreports). An unparsable property list takes the same catch as a
\* missing one, and any bytes are a line stream, so the other types have no
\* malformed state of their own.
RawStates(a) ==
    IF a \in {"pprofiles", "crashreports"}
    THEN {"ok", "missing", "malformed"}
    ELSE {"ok", "missing"}

\* the order in which readProcessedJSON reads, then parses, the record files
ReadOrder(loadIssues) ==
    <<"device", "apps", "pprofiles", "syslog", "crashreports", "backup">>
      \o (IF loadIssues THEN <<"issues">> ELSE <<>>)

\* readProcessedJSON: every readFileSync runs before the first assignment to
\* data, all inside one try; the catch returns data as it stands
readProcessedJSON(files, loadIssues) ==
    LET order == ReadOrder(loadIssues)
        bad == {i \in 1..Len(order) : files[order[i]] = "corrupt"}
    IN  IF \E i \in 1..Len(order) : files[order[i]] = "absent"
        THEN {}
        ELSE {"cli"} \cup {order[i] : i \in {j \in 1..Len(order) : \A b \in bad : j < b}}

\* findIssues dereferences data.device.details.standard, data.pprofiles.summary
\* and data.apps.summary without a guard
findIssuesThrows(data, files) ==
    \/ ~({"device", "pprofiles", "apps"} \subseteq data)
    \/ files["device"] = "degraded"

\* the record a normalizer writes, by the state of its raw artifact:
\* "degraded" lacks the sub-tree a reader expects (device.details.standard,
\* apps.details, backup.summary)
Content(a, r) ==
    CASE a = "device" -> IF r = "ok" THEN "full" ELSE "degraded"
      [] a = "apps"   -> IF r = "ok" THEN "full" ELSE "degraded"
      [] a = "backup" -> IF r = "ok" THEN "full" ELSE "degraded"
      [] OTHER        -> "full"

\* the normalizers that return from processArtifacts' synchronous part with
\* their write already issued (processInstalledAppsXML reads with readFileSync)
SyncNormalizers == {"apps"}

\* fs.createReadStream without an 'error' listener (processSyslog,
\* processCrashReports), and statSync/readChunk.sync throwing inside the
\* stream's 'end' handler (processCrashReports)
ReadCrashes(a, r) ==
    \/ a = "syslog" /\ r = "missing"
    \/ a = "crashreports" /\ r \in {"missing", "malformed"}

\* fs.readdir(pprofilePath) fails: return callback(new Error(...))
ReadFails(a, r) == a = "pprofiles" /\ r = "missing"

\* fs.existsSync(processedPath), which processArtifacts creates
ProcessedDirExists == cmd \in {"process", "done", "crashed"}

----------------------------------------------------------------------------
(* Process and report commands: actions *)

ProcessIdle ==
    /\ cmd = "idle"
    /\ norm = [a \in Artifacts |-> "idle"]
    /\ pfile = [f \in ProcessedFiles |-> "absent"]
    /\ paCallback = "none"
    /\ issuesState = "none"
    /\ issuesData = {}
    /\ reportCb = "none"
    /\ reportData = {}

ProcInit ==
    /\ artifactsDir \in BOOLEAN
    /\ raw \in {r \in [Artifacts -> {"ok", "missing", "malformed"}] :
                  /\ \A a \in Artifacts : r[a] \in RawStates(a)
                  /\ ~artifactsDir => \A a \in Artifacts : r[a] = "missing"}
    /\ ProcessIdle

\* the second task of the process command's async.series: findIssues up to
\* its fs.writeFile
findIssuesSync(files) ==
    LET data == readProcessedJSON(files, FALSE) IN
    /\ issuesData' = data
    /\ IF findIssuesThrows(data, files)
       THEN issuesState' = "threw" /\ cmd' = "crashed"
       ELSE issuesState' = "writing" /\ cmd' = cmd

\* callback('null', 'completed processArtifact async.parallel execution'): the
\* err argument is the string 'null', not null
ProcessArtifactsErr == "'null'"

\* if (err), for the values an err argument takes
Truthy(err) == err \notin {"null", "undefined"}

\* a variant: the final callback runs at the first normalizer's callback
AnyNormalizer(a) == TRUE

\* async.parallel runs its final callback when the last of its tasks has
\* called back
LastNormalizer(a) == \A b \in Artifacts \ {a} : norm[b] \in {"done", "failed"}

\* a normalizer's callback as processArtifacts wraps it: log, then callback();
\* the last one runs async.parallel's final callback, callback('null', ...),
\* and the process command moves on to findIssues
NormalizerCallback(a, outcome, files) ==
    /\ norm' = [norm EXCEPT ![a] = outcome]
    /\ IF LastNormalizer(a)
       THEN /\ paCallback' = ProcessArtifactsErr
            /\ findIssuesSync(files)
       ELSE UNCHANGED <<paCallback, issuesState, issuesData, cmd>>

\* processArtifacts: the directory checks and the synchronous part of the six
\* normalizers
RunProcess ==
    /\ cmd = "idle"
    /\ reportCb = "none"
    /\ IF ~artifactsDir
       THEN /\ cmd' = "exit1"
            /\ UNCHANGED norm
       ELSE /\ cmd' = "process"
            /\ norm' = [a \in Artifacts |->
                          IF a \in SyncNormalizers THEN "writing" ELSE "reading"]
    /\ UNCHANGED <<artifactsDir, raw, pfile, paCallback, issuesState, issuesData,
                   reportCb, reportData>>
    /\ UNCHANGED <<extractVars, unitVars>>

\* the normalizers whose fs.writeFile has been issued and has not called back
InFlight == {b \in Artifacts : norm[b] = "writing"}

\* the read a normalizer waits for completes: fs.readdir's callback
\* (processDeviceInfo, processProvisioningProfiles) or the stream's 'error' or
\* 'end' (processSyslog, processCrashReports, processBackup)
NormRead(a) ==
    /\ cmd = "process"
    /\ norm[a] = "reading"
    /\ IF ReadCrashes(a, raw[a])
       THEN \* the node process dies; a write still in flight leaves its file
            \* absent, truncated or complete
            /\ cmd' = "crashed"
            /\ \E lost \in SUBSET InFlight : \E cut \in SUBSET (InFlight \ lost) :
                  pfile' = [b \in ProcessedFiles |->
                              IF b \in lost THEN "absent"
                              ELSE IF b \in cut THEN "corrupt"
                              ELSE IF b \in InFlight THEN Content(b, raw[b])
                              ELSE pfile[b]]
            /\ UNCHANGED <<norm, paCallback, issuesState, issuesData>>
       ELSE IF ReadFails(a, raw[a])
       THEN /\ pfile' = pfile
            /\ NormalizerCallback(a, "failed", pfile)
       ELSE /\ norm' = [norm EXCEPT ![a] = "writing"]
            /\ UNCHANGED <<cmd, pfile, paCallback, issuesState, issuesData>>
    /\ UNCHANGED <<artifactsDir, raw, reportCb, reportData>>
    /\ UNCHANGED <<extractVars, unitVars>>

\* fs.writeFile's callback in a normalizer: the record is on disk
NormWritten(a) ==
    /\ cmd = "process"
    /\ norm[a] = "writing"
    /\ LET files == [pfile EXCEPT ![a] = Content(a, raw[a])] IN
         /\ pfile' = files
         /\ NormalizerCallback(a, "done", files)
    /\ UNCHANGED <<artifactsDir, raw, reportCb, reportData>>
    /\ UNCHANGED <<extractVars, unitVars>>

\* fs.writeFile's callback in findIssues: issues.json is on disk
IssuesWritten ==
    /\ cmd = "process"
    /\ issuesState = "writing"
    /\ pfile' = [pfile EXCEPT !["issues"] = "full"]
    /\ issuesState' = "done"
    /\ cmd' = "done"
    /\ UNCHANGED <<artifactsDir, raw, norm, paCallback, issuesData, reportCb, reportData>>
    /\ UNCHANGED <<extractVars, unitVars>>

\* generateReport without a diff directory
RunReport ==
    /\ cmd # "process"
    /\ reportCb = "none"
    /\ IF ~artifactsDir \/ ~ProcessedDirExists
       THEN reportCb' = "error" /\ reportData' = reportData
       ELSE reportCb' = "saved" /\ reportData' = readProcessedJSON(pfile, TRUE)
    /\ UNCHANGED <<artifactsDir, raw, cmd, norm, pfile, paCallback, issuesState, issuesData>>
    /\ UNCHANGED <<extractVars, unitVars>>

ProcNext ==
    \/ RunProcess
    \/ \E a \in Artifacts : NormRead(a)
    \/ \E a \in Artifacts : NormWritten(a)
    \/ IssuesWritten
    \/ RunReport

\* the I/O completions Node is bound to deliver
ProcProgress ==
    \/ \E a \in Artifacts : NormRead(a)
    \/ \E a \in Artifacts : NormWritten(a)
    \/ IssuesWritten

----------------------------------------------------------------------------
(* Normalizers and findIssues as functions of their input: helpers *)

\* the sequences over S of length at most n
SeqsUpTo(S, n) == UNION {[1..k -> S] : k \in 0..n}

\* the sum of a sequence of numbers
SumSeq(s) ==
    LET f[i \in 0..Len(s)] == IF i = 0 THEN 0 ELSE f[i - 1] + s[i]
    IN  f[Len(s)]

\* a record file that does not exist
Absent == [exists |-> FALSE]

----------------------------------------------------------------------------
(* processInstalledAppsXML *)

\* app[attrib] !== 'Apple iPhone OS Application Signing'
AppleSigner == "Apple iPhone OS Application Signing"

\* attrib.endsWith('UsageDescription'), for the property names that occur
EndsWithUsageDescription(attrib) ==
    attrib \in {"NSCameraUsageDescription", "NSContactsUsageDescription"}

\* application records as plist.parse returns them: a dictionary per
\* application, its keys the properties the device reported
AppCatalogue ==
    { [CFBundleIdentifier |-> "com.apple.mobilesafari",
       ApplicationType |-> "System",
       SignerIdentity |-> AppleSigner,
       Entitlements |-> {"application-identifier", "keychain-access-groups"}],
      [CFBundleIdentifier |-> "com.example.photo",
       ApplicationType |-> "User",
       SignerIdentity |-> AppleSigner,
       Entitlements |-> {"application-identifier"},
       NSCameraUsageDescription |-> "take pictures",
       NSContactsUsageDescription |-> "find friends",
       UIBackgroundModes |-> <<"audio", "fetch">>],
      [CFBundleIdentifier |-> "com.example.inhouse",
       ApplicationType |-> "User",
       SignerIdentity |-> "iPhone Distribution: Example Corp",
       Entitlements |-> {},
       UIRequiresPersistentWiFi |-> TRUE,
       NSAppTransportSecurity |->
           [NSAllowsArbitraryLoads |-> TRUE,
            NSExceptionDomains |-> {"example.com"}]],
      [CFBundleIdentifier |-> "com.example.unsigned",
       ApplicationType |-> "User",
       NSCameraUsageDescription |-> "scan codes"],
      [CFBundleIdentifier |-> "com.apple.webapp",
       ApplicationType |-> "Hidden",
       SignerIdentity |-> AppleSigner] }

\* installed-apps.xml: unreadable (absent, or not a property list), or an
\* array of application records
AppsInputs ==
    {[readable |-> FALSE, apps |-> <<>>]}
      \cup {[readable |-> TRUE, apps |-> s] : s \in SeqsUpTo(AppCatalogue, MaxItems)}

\* a variant: a counter goes on from the value in the existing apps.json
InitialCountCarried(existing, name) ==
    IF existing.exists THEN existing.summary[name] ELSE 0

\* let totalApps = 0; let userApps = 0; ... : every counter is a local of the
\* call, and the existing apps.json is not read
InitialCount(existing, name) == 0

Has(app, attrib) == attrib \in DOMAIN app

\* what one pass of the inner for-in loop adds to each counter for one app
AppAdds(app, name) ==
    CASE name = "totalApps" -> 1
      [] name = "userApps" ->
            IF Has(app, "ApplicationType") /\ app.ApplicationType = "User" THEN 1 ELSE 0
      [] name = "systemApps" ->
            IF Has(app, "ApplicationType") /\ app.ApplicationType = "System" THEN 1 ELSE 0
      [] name = "nonAppleSigner" ->
            IF Has(app, "SignerIdentity") /\ app.SignerIdentity # AppleSigner THEN 1 ELSE 0
      [] name = "appsWithEntitlements" ->
            IF Has(app, "Entitlements") THEN 1 ELSE 0
      [] name = "usePersistentWifi" ->
            IF Has(app, "UIRequiresPersistentWiFi") /\ app.UIRequiresPersistentWiFi = TRUE
            THEN 1 ELSE 0
      [] name = "requestsForPrivacySensitiveDataAccess" ->
            Cardinality({a \in DOMAIN app : EndsWithUsageDescription(a)})
      [] name = "allowArbitraryLoads" ->
            IF /\ Has(app, "NSAppTransportSecurity")
               /\ "NSAllowsArbitraryLoads" \in DOMAIN app.NSAppTransportSecurity
               /\ app.NSAppTransportSecurity.NSAllowsArbitraryLoads = TRUE
            THEN 1 ELSE 0
      [] name = "allowArbitraryLoadsInWebContent" ->
            IF /\ Has(app, "NSAppTransportSecurity")
               /\ "NSAllowsArbitraryLoadsInWebContent" \in DOMAIN app.NSAppTransportSecurity
               /\ app.NSAppTransportSecurity.NSAllowsArbitraryLoadsInWebContent = TRUE
            THEN 1 ELSE 0
      [] name = "domainsAllowedArbitraryLoads" ->
            IF /\ Has(app, "NSAppTransportSecurity")
               /\ "NSExceptionDomains" \in DOMAIN app.NSAppTransportSecurity
            THEN Cardinality(app.NSAppTransportSecurity.NSExceptionDomains)
            ELSE 0

CounterNames ==
    {"totalApps", "userApps", "systemApps", "nonAppleSigner", "appsWithEntitlements",
     "usePersistentWifi", "requestsForPrivacySensitiveDataAccess", "allowArbitraryLoads",
     "allowArbitraryLoadsInWebContent", "domainsAllowedArbitraryLoads"}

\* the keys app[attrib] contributes to a tally map of the summary
TallyKeys(app, map) ==
    CASE map = "entitlements" ->
            IF Has(app, "Entitlements") THEN app.Entitlements ELSE {}
      [] map = "privacySensitiveDataAccess" ->
            {a \in DOMAIN app : EndsWithUsageDescription(a)}
      [] map = "UIBackgroundModes" ->
            IF Has(app, "UIBackgroundModes") THEN SeqToSet(app.UIBackgroundModes) ELSE {}

\* apps.summary.<map>: a key is created at 0 when first met and incremented at
\* each application that has it
Tally(obj, map) ==
    LET keys == UNION {TallyKeys(obj[i], map) : i \in 1..Len(obj)}
    IN  [k \in keys |-> Cardinality({i \in 1..Len(obj) : k \in TallyKeys(obj[i], map)})]

\* processInstalledAppsXML: the record written to apps.json. A read or parse
\* error leaves every counter at its initial value and apps.details unset.
processInstalledAppsXML(input, existing) ==
    LET obj == IF input.readable THEN input.apps ELSE <<>> IN
    [exists  |-> TRUE,
     details |-> input.readable,
     summary |-> [name \in CounterNames |->
                    InitialCount(existing, name)
                      + SumSeq([i \in 1..Len(obj) |-> AppAdds(obj[i], name)])],
     entitlements |-> Tally(obj, "entitlements"),
     privacySensitiveDataAccess |-> Tally(obj, "privacySensitiveDataAccess"),
     UIBackgroundModes |-> Tally(obj, "UIBackgroundModes")]

----------------------------------------------------------------------------
(* processDeviceInfo *)

FileStates == {"ok", "missing", "unparsable"}

\* artifacts/ideviceinfo.xml and the artifacts/ideviceinfo-<domain>.xml files
DeviceInputs == [primary : FileStates, domains : [Domains -> FileStates]]

\* processDevice's catch: callback(null, 'Hit snag processing main ideviceinfo
\* plist'); the err handed on is null whether or not the primary file was read
ProcessDeviceErr(primary) == "null"

\* processDeviceInfo: device.details gets the key standard when the primary
\* file is read and parsed, and one key per domain file that is read and parsed;
\* device.json is written and the callback gets (null, ...) in every case
processDeviceInfo(input, existing) ==
    [record |-> [exists   |-> TRUE,
                 standard |-> input.primary = "ok",
                 domains  |-> {d \in Domains : input.domains[d] = "ok"}],
     cb     |-> <<ProcessDeviceErr(input.primary)>>,
     died   |-> FALSE]

----------------------------------------------------------------------------
(* processProvisioningProfiles *)

\* directory entries of artifacts/pprofiles: a profile that parses, one that
\* does not, and a file of another kind
PprofileEntries ==
    { [suffix |-> ".mobileprovision", parses |-> TRUE],
      [suffix |-> ".mobileprovision", parses |-> FALSE],
      [suffix |-> ".log", parses |-> FALSE] }

PprofileInputs ==
    {[dir |-> FALSE, files |-> <<>>]}
      \cup {[dir |-> TRUE, files |-> f] : f \in SeqsUpTo(PprofileEntries, MaxItems)}

\* a variant: a profile that cannot be parsed is left out of details
DropUnparsable(details, entry) == details

\* catch (err) { obj.AppIDName = 'error reading pprofile ...'; pprofiles.details.push(obj) }
PushPlaceholder(details, entry) == Append(details, "placeholder")

\* the body async.each runs for each directory entry, on (count, details)
PprofileStep(acc, entry) ==
    IF entry.suffix = ".mobileprovision"
    THEN [count   |-> acc.count + 1,
          details |-> IF entry.parses
                      THEN Append(acc.details, "profile")
                      ELSE PushPlaceholder(acc.details, entry)]
    ELSE acc

PprofileFold(files) ==
    LET f[i \in 0..Len(files)] ==
            IF i = 0 THEN [count |-> 0, details |-> <<>>]
            ELSE PprofileStep(f[i - 1], files[i])
    IN  f[Len(files)]

\* processProvisioningProfiles: a readdir error is passed to the callback and
\* nothing is written; otherwise pprofiles.json gets details and the count
processProvisioningProfiles(input, existing) ==
    IF ~input.dir
    THEN [record |-> existing, cb |-> <<"Error">>, died |-> FALSE]
    ELSE LET acc == PprofileFold(input.files) IN
         [record |-> [exists  |-> TRUE,
                      details |-> acc.details,
                      summary |-> [pprofilesFound |-> acc.count]],
          cb     |-> <<"null">>,
          died   |-> FALSE]

----------------------------------------------------------------------------
(* processCrashReports *)

\* lines of crash_reports/crashlogs.txt, each given as the fields that single
\* spaces separate (line.split(' ')); idevicecrashreport --keep prints
\* "Copy: <relative path>" for every report it copies
CrashLines ==
    { <<"Copy:", "a.log">>,
      <<"Copy:", "DiagnosticLogs/security.log">>,
      <<"Copy:", "ProxiedDevice-My", "Watch/panic.ips">>,
      <<"Done.">> }

CrashInputs ==
    {[readable |-> FALSE, lines |-> <<>>]}
      \cup {[readable |-> TRUE, lines |-> l] : l \in SeqsUpTo(CrashLines, MaxItems)}

\* line.startsWith('Copy: ')
IsCopyLine(line) == Len(line) >= 2 /\ line[1] = "Copy:"

\* the relative filename a copy line names: all that follows the marker
NamedFile(line) == SubSeq(line, 2, Len(line))

\* line.split(' ')[1]
CopiedFilename(line) == <<line[2]>>

\* the report files idevicecrashreport has copied below crash_reports
CopiedFiles(lines) == {NamedFile(lines[i]) : i \in {j \in 1..Len(lines) : IsCopyLine(lines[j])}}

\* the 'data' handler over the whole transcript: count and filenames
CrashFold(lines) ==
    LET f[i \in 0..Len(lines)] ==
            IF i = 0 THEN [count |-> 0, filenames |-> <<>>]
            ELSE IF IsCopyLine(lines[i])
                 THEN [count     |-> f[i - 1].count + 1,
                       filenames |-> Append(f[i - 1].filenames, CopiedFilename(lines[i]))]
                 ELSE f[i - 1]
    IN  f[Len(lines)]

\* processCrashReports: an unreadable transcript raises an 'error' event nobody
\* listens to; fs.statSync throws inside the 'end' handler when a filename
\* taken from the transcript is not a file below crash_reports
processCrashReports(input, existing) ==
    LET acc == CrashFold(input.lines) IN
    IF ~input.readable
       \/ \E i \in 1..Len(acc.filenames) : acc.filenames[i] \notin CopiedFiles(input.lines)
    THEN [record |-> existing, cb |-> <<>>, died |-> TRUE]
    ELSE [record |-> [exists  |-> TRUE,
                      summary |-> [reports |-> acc.count, filenames |-> acc.filenames],
                      details |-> [i \in 1..Len(acc.filenames) |-> acc.filenames[i]]],
          cb     |-> <<"null">>,
          died   |-> FALSE]

----------------------------------------------------------------------------
(* processBackup *)

\* lines of backup/backup_log.txt as the fields single spaces separate
BackupLines ==
    { <<"Received", "623", "files", "from", "device.">>,
      <<"Receiving", "files">>,
      <<"Backup", "Successful.">> }

BackupInputs ==
    {[readable |-> FALSE, lines |-> <<>>]}
      \cup {[readable |-> TRUE, lines |-> l] : l \in SeqsUpTo(BackupLines, MaxItems)}

\* line.startsWith('Received ')
IsReceivedLine(line) == Len(line) >= 2 /\ line[1] = "Received"

\* a JSON value with its type
Num(text) == [type |-> "number", text |-> text]
Str(text) == [type |-> "string", text |-> text]

\* let backupFileCount = 0; ... backupFileCount = line.split(' ')[1]
BackupFold(lines) ==
    LET f[i \in 0..Len(lines)] ==
            IF i = 0 THEN Num("0")
            ELSE IF IsReceivedLine(lines[i]) THEN Str(lines[i][2])
            ELSE f[i - 1]
    IN  f[Len(lines)]

\* a variant: an absent backup log is reported to the callback as an error
BackupAbsentIsError(input) == <<"Error">>

\* .on('error'): "not flagging as error" - callback(null, ...) from fs.writeFile
BackupAbsentCb(input) == <<"null">>

\* processBackup: without the log an empty object is written; with it,
\* backup.summary.files
processBackup(input, existing) ==
    IF ~input.readable
    THEN [record |-> [exists |-> TRUE, hasSummary |-> FALSE, files |-> Num("0")],
          cb     |-> BackupAbsentCb(input),
          died   |-> FALSE]
    ELSE [record |-> [exists |-> TRUE, hasSummary |-> TRUE, files |-> BackupFold(input.lines)],
          cb     |-> <<"null">>,
          died   |-> FALSE]

----------------------------------------------------------------------------
(* findIssues *)

\* iOSversions.LATEST_IOS_VERSION
LATEST_IOS_VERSION == "10.2.1"

ProductVersions == {"10.2", "10.2.1", "10.3"}

\* the fields of the processed snapshot findIssues reads
IssueInputs ==
    [PasswordProtected : BOOLEAN, ProductVersion : ProductVersions,
     pprofilesFound : 0..MaxCount, nonAppleSigner : 0..MaxCount]

\* a variant: only a version older than the latest is reported
OlderThanLatest(version) == version = "10.2"

\* data.device.details.standard.ProductVersion !== iOSversions.LATEST_IOS_VERSION
VersionOutOfDate(version) == version # LATEST_IOS_VERSION

\* if (<test>) { issueCount++; ...; issues.details.push(issueDetails) }
IssueStep(acc, test, title, level) ==
    IF test
    THEN [count   |-> acc.count + 1,
          details |-> Append(acc.details, [title |-> title, level |-> level])]
    ELSE acc

\* findIssues on a complete snapshot: the four tests in their order, then
\* issues.json with summary.count and details
findIssues(data, existing) ==
    LET a0 == [count |-> 0, details |-> <<>>]
        a1 == IssueStep(a0, ~data.PasswordProtected,
                        "Device not password protected", "medium")
        a2 == IssueStep(a1, VersionOutOfDate(data.ProductVersion),
                        "iOS version out of date", "high")
        a3 == IssueStep(a2, data.pprofilesFound > 0,
                        "Provisioning profiles found", "medium")
        a4 == IssueStep(a3, data.nonAppleSigner > 0,
                        "Developer signed apps found", "medium")
    IN  [record |-> [exists  |-> TRUE,
                     summary |-> [count |-> a4.count],
                     details |-> a4.details],
         cb     |-> <<"null">>,
         died   |-> FALSE]

----------------------------------------------------------------------------
(* generateReport: the diff of two processed snapshots *)

\* a JSON tree: a scalar, a mapping or a sequence; kids holds the children in
\* order as <<key, child>>, the key of a sequence element being its index
Scalar(v) == [t |-> "scalar", v |-> v, kids |-> <<>>]

MapNode(kids) == [t |-> "map", v |-> "", kids |-> kids]

IndexKeys == <<"0", "1", "2", "3">>

SeqNode(elems) ==
    [t |-> "seq", v |-> "", kids |-> [i \in 1..Len(elems) |-> <<IndexKeys[i], elems[i]>>]]

\* the value of a key that an object does not have
UndefinedNode == [t |-> "undefined", v |-> "", kids |-> <<>>]

Keys(node) == {node.kids[i][1] : i \in 1..Len(node.kids)}

Child(node, k) == node.kids[CHOOSE i \in 1..Len(node.kids) : node.kids[i][1] = k][2]

\* one difference: kind N (added), D (removed), E (edited) at path, or kind A:
\* a change of the array at path, at index, whose item is N or D
DiffEntry(kind, path, index, item, lhs, rhs) ==
    [kind |-> kind, path |-> path, index |-> index, item |-> item, lhs |-> lhs, rhs |-> rhs]

\* the concatenation of a sequence of sequences
Flatten(ss) ==
    LET f[i \in 0..Len(ss)] == IF i = 0 THEN <<>> ELSE f[i - 1] \o ss[i]
    IN  f[Len(ss)]

RECURSIVE deepdiff(_, _, _)
\* diff(lhs, rhs) of deep-diff, at path: two scalars give an edit when they
\* differ; two mappings are compared key by key, a key of one side only being
\* an addition or a removal; two sequences are compared index by index up to
\* the shorter length, and each further element is an array change at its
\* index; values of different types are an edit of the whole subtree
deepdiff(lhs, rhs, path) ==
    IF lhs.t = "undefined"
    THEN IF rhs.t # "undefined"
         THEN <<DiffEntry("N", path, "", "", lhs, rhs)>>
         ELSE <<>>
    ELSE IF rhs.t = "undefined"
    THEN <<DiffEntry("D", path, "", "", lhs, rhs)>>
    ELSE IF lhs.t # rhs.t
    THEN <<DiffEntry("E", path, "", "", lhs, rhs)>>
    ELSE IF lhs.t = "seq"
    THEN Flatten([i \in 1..Len(lhs.kids) |->
                    IF i > Len(rhs.kids)
                    THEN <<DiffEntry("A", path, IndexKeys[i], "D", lhs.kids[i][2], UndefinedNode)>>
                    ELSE deepdiff(lhs.kids[i][2], rhs.kids[i][2], Append(path, IndexKeys[i]))])
           \o [j \in 1..(IF Len(rhs.kids) > Len(lhs.kids)
                         THEN Len(rhs.kids) - Len(lhs.kids) ELSE 0) |->
                 DiffEntry("A", path, IndexKeys[Len(lhs.kids) + j], "N",
                           UndefinedNode, rhs.kids[Len(lhs.kids) + j][2])]
    ELSE IF lhs.t = "map"
    THEN LET rest == SelectSeq(rhs.kids, LAMBDA kv : kv[1] \notin Keys(lhs)) IN
         Flatten([i \in 1..Len(lhs.kids) |->
                    LET k == lhs.kids[i][1] IN
                    deepdiff(lhs.kids[i][2],
                             IF k \in Keys(rhs) THEN Child(rhs, k) ELSE UndefinedNode,
                             Append(path, k))])
           \o Flatten([j \in 1..Len(rest) |->
                    deepdiff(UndefinedNode, rest[j][2], Append(path, rest[j][1]))])
    ELSE IF lhs.v # rhs.v
    THEN <<DiffEntry("E", path, "", "", lhs, rhs)>>
    ELSE <<>>

\* the records of a processed snapshot, as far as the diff is concerned
DiffScalars == {Scalar("1"), Scalar("2")}

DiffSeqs == {SeqNode(s) : s \in SeqsUpTo(DiffScalars, MaxItems)}

SummaryKeys == <<"totalApps", "userApps">>

DiffMaps ==
    {MapNode([i \in 1..Len(ks) |-> <<ks[i], f[ks[i]]>>]) :
        <<ks, f>> \in UNION {{<<SelectSeq(SummaryKeys, LAMBDA k : k \in K), g>> :
                                 g \in [K -> DiffScalars]} : K \in SUBSET SeqToSet(SummaryKeys)}}

DiffTrees ==
    DiffScalars \cup DiffSeqs \cup DiffMaps
      \cup {SeqNode(<<m>>) : m \in DiffMaps}
      \cup {MapNode(<<<<"details", x>>>>) : x \in DiffSeqs \cup DiffMaps}

\* the processed records of <dir> and of <diffdir>
DiffInputs == [dir : DiffTrees, diffdir : DiffTrees]

\* a variant: issues.json is not loaded for <dir>
LoadIssuesNotForDir(which) == which # "dir"

\* a variant: issues.json is not loaded for <diffdir>
LoadIssuesNotForDiffdir(which) == which # "diffdir"

\* readProcessedJSON(diffdir, true) and readProcessedJSON(dir, true)
LoadIssues(which) == TRUE

\* readProcessedJSON on a directory whose record files are all readable: the
\* records, and data.issues when loadIssues is set
LoadedData(tree, loadIssues) ==
    MapNode(<<<<"record", tree>>>>
              \o (IF loadIssues THEN <<<<"issues", Scalar("1")>>>> ELSE <<>>))

\* a variant: the two snapshots are handed to the diff the other way round
DiffOperandsSwapped(data, dataRhs) == <<dataRhs, data>>

\* deepdiff(data, dataRhs)
DiffOperands(data, dataRhs) == <<data, dataRhs>>

\* generateReport with a diff directory: data.diff
generateReportDiff(dir, diffdir) ==
    LET dataRhs == LoadedData(diffdir, LoadIssues("diffdir"))
        data    == LoadedData(dir, LoadIssues("dir"))
        ops     == DiffOperands(data, dataRhs)
    IN  deepdiff(ops[1], ops[2], <<>>)

----------------------------------------------------------------------------
(* processSyslog *)

\* syslog.txt: unreadable, or the number of chunks split() emits for it
SyslogInputs == [readable : BOOLEAN, chunks : 0..MaxItems]

\* processSyslog: count++ per chunk, then syslog.summary.lines; an unreadable
\* file raises an 'error' event nobody listens to
processSyslog(input, existing) ==
    IF ~input.readable
    THEN [record |-> existing, cb |-> <<>>, died |-> TRUE]
    ELSE [record |-> [exists |-> TRUE, summary |-> [lines |-> input.chunks]],
          cb     |-> <<"null">>,
          died   |-> FALSE]

----------------------------------------------------------------------------
(* The shape of the processed records, and what findIssues reads of them *)

\* the top-level keys of the record a normalizer has written
RecordKeys(u, rec) ==
    CASE u = "device"       -> {"details"}
      [] u = "apps"         -> {"summary"} \cup (IF rec.details THEN {"details"} ELSE {})
      [] u = "pprofiles"    -> {"details", "summary"}
      [] u = "syslog"       -> {"summary"}
      [] u = "crashreports" -> {"summary", "details"}
      [] u = "backup"       -> IF rec.hasSummary THEN {"summary"} ELSE {}

\* the raw artifact was read and parsed
Parsed(u, input) ==
    CASE u = "device"    -> input.primary = "ok"
      [] u = "pprofiles" -> input.dir
      [] OTHER           -> input.readable

\* the record and the sub-tree each test of findIssues reads, in its order:
\* data.device.details.standard.PasswordProtected,
\* data.device.details.standard.ProductVersion,
\* data.pprofiles.summary.pprofilesFound, data.apps.summary.nonAppleSigner
RuleReads ==
    << <<"device", "details">>, <<"device", "details">>,
       <<"pprofiles", "summary">>, <<"apps", "summary">> >>

----------------------------------------------------------------------------
(* setWorkingDirectory *)

\* the directory a path's last component lies in
Parent(d) == SubSeq(d, 1, Len(d) - 1)

\* if (userOutputDir) { workingDir = userOutputDir } else { workingDir = __dirname }
WorkingDir(userOutputDir) == IF userOutputDir # "" THEN <<userOutputDir>> ELSE <<"__dirname">>

UdidDir(input) == Append(WorkingDir(input.userOutputDir), input.udid)
UdidEpochDir(input) == Append(UdidDir(input), input.currentEpoch)
ArtifactDir(input) == Append(UdidEpochDir(input), "artifacts")

\* the arguments of setWorkingDirectory, and the directories that exist before
\* its first call: the working directory or not, and any leading part of the
\* tree below it
PreExisting(o) ==
    {{}, {WorkingDir(o)},
     {WorkingDir(o), <<WorkingDir(o)[1], "udid">>},
     {WorkingDir(o), <<WorkingDir(o)[1], "udid">>,
      <<WorkingDir(o)[1], "udid", "1484815625000">>},
     {WorkingDir(o), <<WorkingDir(o)[1], "udid">>,
      <<WorkingDir(o)[1], "udid", "1484815625000">>,
      <<WorkingDir(o)[1], "udid", "1484815625000", "artifacts">>}}

WorkdirInputs ==
    UNION {{[userOutputDir |-> o, udid |-> "udid", currentEpoch |-> "1484815625000",
             dirs |-> ds] : ds \in PreExisting(o)} : o \in {"", "out"}}

\* a variant: the directory is made without looking whether it exists
AlwaysMkdir(dirs, d) == TRUE

\* if (!fs.existsSync(d))
NeedsMkdir(dirs, d) == d \notin dirs

\* if (!fs.existsSync(d)) { fs.mkdirSync(d) }: mkdirSync throws when d exists
\* or when the directory it lies in does not
MkdirIfAbsent(st, d) ==
    IF st.threw \/ ~NeedsMkdir(st.dirs, d) THEN st
    ELSE IF d \in st.dirs \/ Parent(d) \notin st.dirs
    THEN [st EXCEPT !.threw = TRUE]
    ELSE [st EXCEPT !.dirs = st.dirs \cup {d}]

\* setWorkingDirectory on the directories that exist: the three directories in
\* turn, then return (udidEpochDir)
setWorkingDirectory(input, existing) ==
    LET st0 == [dirs |-> IF existing.exists THEN existing.dirs ELSE input.dirs,
                threw |-> FALSE]
        st3 == MkdirIfAbsent(MkdirIfAbsent(MkdirIfAbsent(st0, UdidDir(input)),
                                           UdidEpochDir(input)),
                             ArtifactDir(input))
    IN  [record |-> [exists   |-> TRUE,
                     dirs     |-> st3.dirs,
                     returned |-> ~st3.threw,
                     path     |-> IF st3.threw THEN <<>> ELSE UdidEpochDir(input)],
         cb     |-> <<>>,
         died   |-> st3.threw]

----------------------------------------------------------------------------
(* Normalizers and findIssues as functions of their input: actions *)

Units ==
    {"device", "apps", "pprofiles", "syslog", "crashreports", "backup", "issues", "diff",
     "workdir"}

UnitInputs(u) ==
    CASE u = "device"       -> DeviceInputs
      [] u = "apps"         -> AppsInputs
      [] u = "pprofiles"    -> PprofileInputs
      [] u = "crashreports" -> CrashInputs
      [] u = "backup"       -> BackupInputs
      [] u = "issues"       -> IssueInputs
      [] u = "diff"         -> DiffInputs
      [] u = "syslog"       -> SyslogInputs
      [] u = "workdir"      -> WorkdirInputs

\* no function is under study
UnitIdle ==
    /\ unit = "none"
    /\ rawInput = Absent
    /\ onDisk = Absent
    /\ before = Absent
    /\ cbErrs = <<>>
    /\ runs = 0
    /\ died = FALSE

\* a snapshot directory holding one raw artifact, before the first run
UnitInit ==
    /\ unit \in Units
    /\ rawInput \in UnitInputs(unit)
    /\ onDisk = Absent
    /\ before = Absent
    /\ cbErrs = <<>>
    /\ runs = 0
    /\ died = FALSE

\* one run of a function: what it leaves on disk and hands its callback
Apply(out) ==
    /\ runs < MaxRuns
    /\ runs' = runs + 1
    /\ before' = onDisk
    /\ onDisk' = out.record
    /\ cbErrs' = cbErrs \o out.cb
    /\ died' = out.died
    /\ UNCHANGED <<unit, rawInput>>
    /\ UNCHANGED <<extractVars, processVars>>

RunDeviceInfo == unit = "device" /\ Apply(processDeviceInfo(rawInput, onDisk))

RunInstalledApps ==
    /\ unit = "apps"
    /\ Apply([record |-> processInstalledAppsXML(rawInput, onDisk),
              cb |-> <<"null">>, died |-> FALSE])

RunProvisioningProfiles ==
    unit = "pprofiles" /\ Apply(processProvisioningProfiles(rawInput, onDisk))

RunCrashReports == unit = "crashreports" /\ Apply(processCrashReports(rawInput, onDisk))

RunBackup == unit = "backup" /\ Apply(processBackup(rawInput, onDisk))

RunFindIssues == unit = "issues" /\ Apply(findIssues(rawInput, onDisk))

RunSyslog == unit = "syslog" /\ Apply(processSyslog(rawInput, onDisk))

RunSetWorkingDirectory == unit = "workdir" /\ Apply(setWorkingDirectory(rawInput, onDisk))

\* generateReport(dir, diffdir, ...): the diff handed to the templates
RunDiff ==
    /\ unit = "diff"
    /\ Apply([record |-> [exists |-> TRUE,
                          diff   |-> generateReportDiff(rawInput.dir, rawInput.diffdir)],
              cb |-> <<"null">>, died |-> FALSE])

UnitNext ==
    \/ RunDeviceInfo
    \/ RunInstalledApps
    \/ RunProvisioningProfiles
    \/ RunCrashReports
    \/ RunBackup
    \/ RunFindIssues
    \/ RunDiff
    \/ RunSyslog
    \/ RunSetWorkingDirectory

----------------------------------------------------------------------------
(* Process and report commands: exit status *)

\* the exit status of the process command: process.exit(1) without an
\* artifacts directory, 1 after an uncaught exception, 0 after a run to the
\* end, -1 while it has not ended
ProcessExitStatus ==
    CASE cmd = "exit1"   -> 1
      [] cmd = "crashed" -> 1
      [] cmd = "done"    -> 0
      [] OTHER           -> -1

\* the report command's action: logger.error(err) or logger.info(runStatus),
\* then it returns; nothing calls process.exit or sets process.exitCode
ReportExitStatus(err) == 0

\* the exit status of the report command, -1 while it has not ended
ReportExit == IF reportCb = "none" THEN -1 ELSE ReportExitStatus(reportCb)

----------------------------------------------------------------------------
(* Specifications *)

\* the extract command, run on its own
Init ==
    /\ ExtractInit
    /\ artifactsDir = TRUE
    /\ raw = [a \in Artifacts |-> "ok"]
    /\ ProcessIdle
    /\ UnitIdle

Spec == Init /\ [][Next]_vars

FairSpec == Spec /\ WF_vars(ExtractProgress)

\* the process and report commands, run on a snapshot directory
ExtractIdle ==
    /\ ExtractInit
    /\ options = [backup |-> FALSE, syslogTimeout |-> Undefined]
    /\ caseSensitive = TRUE

ProcSpecInit == ExtractIdle /\ ProcInit /\ UnitIdle

ProcSpec == ProcSpecInit /\ [][ProcNext]_vars

FairProcSpec == ProcSpec /\ WF_vars(ProcProgress)

\* one normalizer, or findIssues, run on one raw artifact
UnitSpecInit ==
    /\ ExtractIdle
    /\ artifactsDir = TRUE
    /\ raw = [a \in Artifacts |-> "ok"]
    /\ ProcessIdle
    /\ UnitInit

UnitSpec == UnitSpecInit /\ [][UnitNext]_vars

----------------------------------------------------------------------------
(* Extract: claims *)

StartedBounded == SeqToSet(spawnLog) \cap BoundedProcs

\* every bounded process that was started has exited
AllBoundedExited ==
    /\ udidStatus = "ok"
    /\ \A p \in StartedBounded : procState[p] = "closed"

\* the err of task t reached the orchestrator's final callback
FailureRecorded(t) == finalErr = t

\* C1: a bounded capture task whose process exits non-zero (the only one to do
\* so) has its failure recorded in the orchestrator's per-task result; when
\* installedApps exits non-zero and every other process exits 0, one failure is
\* reported and idevicesyslog was sent its termination signal.
C1_NonZeroExitRecorded ==
    /\ \A p \in TaskProcs :
          ( /\ procState[p] = "closed" /\ exitCode[p] # 0
            /\ \A q \in TaskProcs \ {p} : exitCode[q] <= 0 )
          => FailureRecorded(TaskOf(p))
    /\ ( /\ procState[AppsProc] = "closed" /\ exitCode[AppsProc] # 0
         /\ \A q \in StartedBounded \ {AppsProc} : procState[q] = "closed" /\ exitCode[q] = 0
         /\ options.syslogTimeout = Undefined )
       => (FailureRecorded("installedApps") /\ syslogSignalled)

\* C2: idevicesyslog is sent SIGINT only when no bounded process (ideviceinfo
\* of any domain, ideviceinstaller, ideviceprovision, idevicecrashreport,
\* idevicebackup2) is still running.
C2_SignalAfterAllBounded ==
    syslogSignalled => \A p \in BoundedProcs : procState[p] # "running"

\* C3: nothing is created or started before the device identifier is resolved,
\* and after a failed resolution the callback has received an error, no
\* snapshot directory exists and no process was ever started.
C3_ResolutionFirst ==
    /\ udidStatus = "pending" =>
          /\ extractCb = "none" /\ ~wdCreated /\ spawnLog = <<>>
          /\ \A p \in Procs : procState[p] = "none"
    /\ udidStatus = "failed" =>
          /\ extractCb = "error" /\ ~wdCreated /\ spawnLog = <<>>
          /\ \A p \in Procs : procState[p] = "none"

\* a resolution that failed on a non-empty, non-identifier output
C3_Witness == udidStatus = "failed" /\ udidError = "Other" /\ extractCb = "error"

\* C4: getUDID succeeds exactly when the tool's complete output has 41
\* characters, in however many data events it arrived; empty output gives the
\* no-authorized-device error, any other output an error carrying that output.
C4_SuccessIffCompleteOutput41 ==
    udidStatus # "pending" =>
        /\ udidStatus = "ok" <=> udidTotal = UdidLen
        /\ udidTotal = 0 => udidError = "NoAuthorizedDevice"
        /\ (udidTotal # 0 /\ udidTotal # UdidLen) =>
               (udidError = "Other" /\ errorCarried = udidTotal)

\* C5: after a successful resolution every bounded process is started exactly
\* once (idevicebackup2 iff --backup), and a task's non-zero exit leaves every
\* other started process served until its own exit: no sibling is abandoned
\* while it is still running.
C5_SiblingsUnaffected ==
    udidStatus = "ok" =>
        /\ StartedBounded = InfoProcs \cup {AppsProc, ProvProc, CrashProc}
                              \cup (IF options.backup THEN {BackupProc} ELSE {})
        /\ Len(spawnLog) = Cardinality(SeqToSet(spawnLog))
        /\ \A p \in StartedBounded :
              ((\E q \in BoundedProcs \ {p} : exitCode[q] > 0)
                 /\ procState[p] \in {"running", "ended"}) => ~crashed

\* C6: when resolution succeeded and every bounded process exits, idevicesyslog
\* eventually terminates, whatever syslog duration was or was not supplied.
C6_SyslogEventuallyTerminates ==
    (<>[]AllBoundedExited) => <>(procState[Syslog] = "closed")

\* C7: the extraction callback carries an error exactly when device resolution
\* failed, and after a successful resolution it is eventually invoked with the
\* completion status, whatever the bounded tasks' exit statuses.
C7_ErrorIffResolutionFailed ==
    /\ [](extractCb = "error" <=> udidStatus = "failed")
    /\ [](udidStatus = "ok" => <>(extractCb = "complete"))

\* C8: in the order of spawning, idevicesyslog precedes every ideviceinfo,
\* ideviceinstaller, ideviceprovision, idevicecrashreport and idevicebackup2.
C8_SyslogSpawnedFirst ==
    \A i \in 1..Len(spawnLog) :
        spawnLog[i] \in BoundedProcs => \E j \in 1..(i - 1) : spawnLog[j] = Syslog

\* an extraction with --backup whose bounded processes have all been spawned
C8_Witness ==
    /\ \E i \in 1..Len(spawnLog) : spawnLog[i] = BackupProc
    /\ \A p \in BoundedProcs : procState[p] = "running"
    /\ procState[Syslog] = "running"

----------------------------------------------------------------------------
(* Process and report commands: claims *)

ProcessStarted == cmd \in {"process", "done", "crashed"}

\* the record files, issues.json aside, that cannot be read and parsed
Unreadable == {a \in Artifacts : pfile[a] \in {"absent", "corrupt"}}

\* C9: whatever raw artifacts are present, missing or malformed, once
\* processArtifacts has found the artifacts directory all six normalizers are
\* started, every normalizer whose raw artifact is readable writes its record,
\* and processArtifacts eventually calls back so that findIssues runs.
C9_NormalizersIsolated ==
    /\ [](ProcessStarted => \A a \in Artifacts : norm[a] # "idle")
    /\ \A a \in Artifacts :
          []((ProcessStarted /\ raw[a] = "ok") => <>(pfile[a] = "full"))
    /\ [](ProcessStarted => <>(paCallback # "none" /\ issuesState # "none"))

\* C10: with exactly one record file missing or unreadable, findIssues and
\* generateReport still get the records of the other five artifact types from
\* readProcessedJSON and go on with them.
C10_PartialDataKept ==
    /\ (issuesState # "none" /\ Cardinality(Unreadable) = 1) =>
          /\ (Artifacts \ Unreadable) \subseteq issuesData
          /\ issuesState # "threw"
    /\ (reportCb = "saved" /\ Cardinality(Unreadable) = 1 /\ pfile["issues"] = "full") =>
          (Artifacts \ Unreadable) \subseteq reportData

----------------------------------------------------------------------------
(* Normalizers and findIssues: claims *)

\* the function under study has run at least once
Ran(u) == unit = u /\ runs > 0

\* C11: processDeviceInfo skips a missing or unparsable per-domain file and
\* records every other domain's data, and when the primary file
\* (ideviceinfo.xml) is missing it reports an error for this artifact type to
\* its callback.
C11_DomainSkippedPrimaryHard ==
    Ran("device") =>
        /\ onDisk.exists
        /\ onDisk.domains = {d \in Domains : rawInput.domains[d] = "ok"}
        /\ rawInput.primary = "missing" => cbErrs[Len(cbErrs)] # "null"

\* the rules of issue detection in their order: whether each holds of the
\* snapshot, and the finding it yields
RuleHolds(data) ==
    << ~data.PasswordProtected,
       data.ProductVersion # LATEST_IOS_VERSION,
       data.pprofilesFound > 0,
       data.nonAppleSigner > 0 >>

RuleFindings ==
    << [title |-> "Device not password protected", level |-> "medium"],
       [title |-> "iOS version out of date", level |-> "high"],
       [title |-> "Provisioning profiles found", level |-> "medium"],
       [title |-> "Developer signed apps found", level |-> "medium"] >>

ExpectedFindings(data) ==
    LET holding == SelectSeq(<<1, 2, 3, 4>>, LAMBDA i : RuleHolds(data)[i])
    IN  [k \in 1..Len(holding) |-> RuleFindings[holding[k]]]

\* C12: issues.details holds, in the fixed rule order, exactly one finding for
\* each rule whose predicate holds of the snapshot and none for the others
\* (not password protected: medium; ProductVersion differing from the latest
\* in either direction: high; pprofilesFound > 0: medium; nonAppleSigner > 0:
\* medium), issues.summary.count is the number of findings, and a snapshot
\* with PasswordProtected false, the latest version and no profiles or
\* foreign signers yields the single password finding.
C12_FindingsMatchRules ==
    Ran("issues") =>
        /\ onDisk.details = ExpectedFindings(rawInput)
        /\ onDisk.summary.count = Len(onDisk.details)
        /\ ( /\ ~rawInput.PasswordProtected
             /\ rawInput.ProductVersion = LATEST_IOS_VERSION
             /\ rawInput.pprofilesFound = 0 /\ rawInput.nonAppleSigner = 0 )
           => onDisk.details = <<[title |-> "Device not password protected",
                                  level |-> "medium"]>>

\* issue detection has run on a device newer than the configured latest
\* version that is not password protected
C12_Witness ==
    /\ Ran("issues")
    /\ rawInput.ProductVersion = "10.3" /\ ~rawInput.PasswordProtected
    /\ rawInput.pprofilesFound = 0 /\ rawInput.nonAppleSigner > 0
    /\ Len(onDisk.details) = 3

\* the applications of the array that satisfy P
AppsWhere(P(_)) == {i \in 1..Len(rawInput.apps) : P(rawInput.apps[i])}

IsUserApp(app) == Has(app, "ApplicationType") /\ app.ApplicationType = "User"
IsSystemApp(app) == Has(app, "ApplicationType") /\ app.ApplicationType = "System"
SignedByPlatform(app) == Has(app, "SignerIdentity") /\ app.SignerIdentity = AppleSigner
NotSignedByPlatform(app) == ~SignedByPlatform(app)
RequestsPrivateData(app) == \E a \in DOMAIN app : EndsWithUsageDescription(a)
HoldsEntitlement(app) == Has(app, "Entitlements") /\ app.Entitlements # {}

\* C13: for every installed-applications array, totalApps is the number of
\* records, userApps and systemApps the numbers of records of ApplicationType
\* User and System, nonAppleSigner the number of applications not signed by the
\* platform signing identity; so userApps + systemApps <= totalApps and
\* nonAppleSigner <= totalApps.
C13_AppCounters ==
    (Ran("apps") /\ rawInput.readable) =>
        /\ onDisk.summary.totalApps = Len(rawInput.apps)
        /\ onDisk.summary.userApps = Cardinality(AppsWhere(IsUserApp))
        /\ onDisk.summary.systemApps = Cardinality(AppsWhere(IsSystemApp))
        /\ onDisk.summary.nonAppleSigner = Cardinality(AppsWhere(NotSignedByPlatform))
        /\ onDisk.summary.userApps + onDisk.summary.systemApps <= onDisk.summary.totalApps
        /\ onDisk.summary.nonAppleSigner <= onDisk.summary.totalApps

\* C14: requestsForPrivacySensitiveDataAccess is the number of applications
\* having at least one property whose name ends in UsageDescription; an
\* application adds at most 1, so the counter never exceeds totalApps.
C14_PrivacyRequestsPerApp ==
    (Ran("apps") /\ rawInput.readable) =>
        /\ onDisk.summary.requestsForPrivacySensitiveDataAccess
              = Cardinality(AppsWhere(RequestsPrivateData))
        /\ onDisk.summary.requestsForPrivacySensitiveDataAccess <= onDisk.summary.totalApps

\* C15: appsWithEntitlements is the number of applications holding at least
\* one entitlement, the tally of each entitlement name is the number of
\* applications declaring it, every tally <= appsWithEntitlements <= totalApps,
\* and appsWithEntitlements > 0 implies a non-empty tally map.
C15_EntitlementCounts ==
    (Ran("apps") /\ rawInput.readable) =>
        /\ onDisk.summary.appsWithEntitlements = Cardinality(AppsWhere(HoldsEntitlement))
        /\ \A e \in DOMAIN onDisk.entitlements :
              /\ onDisk.entitlements[e] =
                    Cardinality({i \in AppsWhere(HoldsEntitlement) :
                                    e \in rawInput.apps[i].Entitlements})
              /\ onDisk.entitlements[e] <= onDisk.summary.appsWithEntitlements
        /\ onDisk.summary.appsWithEntitlements <= onDisk.summary.totalApps
        /\ onDisk.summary.appsWithEntitlements > 0 => DOMAIN onDisk.entitlements # {}

\* C16: summary.pprofilesFound is the number of entries of the pprofiles
\* directory whose name ends in .mobileprovision and the length of details,
\* and each profile that cannot be parsed has one placeholder entry in details.
C16_ProfilesCounted ==
    (Ran("pprofiles") /\ rawInput.dir) =>
        LET files == rawInput.files
            profiles == {i \in 1..Len(files) : files[i].suffix = ".mobileprovision"}
        IN  /\ onDisk.exists
            /\ onDisk.summary.pprofilesFound = Cardinality(profiles)
            /\ onDisk.summary.pprofilesFound = Len(onDisk.details)
            /\ Cardinality({k \in 1..Len(onDisk.details) : onDisk.details[k] = "placeholder"})
                 = Cardinality({i \in profiles : ~files[i].parses})

\* a directory with a profile that parses, one that does not, normalized
C16_Witness ==
    /\ Ran("pprofiles")
    /\ rawInput.dir
    /\ \E i, j \in 1..Len(rawInput.files) :
          /\ rawInput.files[i] = [suffix |-> ".mobileprovision", parses |-> FALSE]
          /\ rawInput.files[j] = [suffix |-> ".mobileprovision", parses |-> TRUE]
    /\ onDisk.exists /\ onDisk.summary.pprofilesFound = 2

\* C17: summary.filenames lists, in transcript order, the relative filename
\* named by each line beginning with "Copy: ", and summary.reports is the
\* number of copy lines, the length of summary.filenames and the length of
\* details.
C17_CopyLinesListed ==
    (Ran("crashreports") /\ rawInput.readable) =>
        LET lines == rawInput.lines
            copies == SelectSeq(lines, IsCopyLine)
        IN  /\ onDisk.exists
            /\ onDisk.summary.filenames = [k \in 1..Len(copies) |-> NamedFile(copies[k])]
            /\ onDisk.summary.reports = Len(copies)
            /\ onDisk.summary.reports = Len(onDisk.summary.filenames)
            /\ onDisk.summary.reports = Len(onDisk.details)

\* C18: without the raw backup log processBackup writes an empty backup record
\* and calls back once per run, without an error; with the log, summary.files
\* is the count given by a line beginning with "Received ", and 0 when no line
\* begins so.
C18_BackupOptional ==
    Ran("backup") =>
        /\ onDisk.exists
        /\ ~rawInput.readable =>
              /\ ~onDisk.hasSummary
              /\ cbErrs = [k \in 1..runs |-> "null"]
        /\ rawInput.readable =>
              LET received == SelectSeq(rawInput.lines, IsReceivedLine) IN
              /\ onDisk.hasSummary
              /\ Len(cbErrs) = runs
              /\ received = <<>> => onDisk.files = Num("0")
              /\ received # <<>> =>
                    \E k \in 1..Len(received) : onDisk.files.text = received[k][2]

\* processBackup has run on a snapshot that has no backup log
C18_Witness ==
    /\ Ran("backup")
    /\ ~rawInput.readable
    /\ onDisk.exists /\ ~onDisk.hasSummary
    /\ cbErrs = <<"null">>

\* C19: a second run of a normalizer on the same raw artifact leaves the record
\* the first run left: every counter is computed from zero, whatever the
\* existing record file holds.
C19_NormalizationIdempotent ==
    (unit \in Units /\ runs >= 2) =>
        /\ onDisk.exists = before.exists
        /\ onDisk.exists => onDisk = before

\* processInstalledAppsXML has run twice on an array of two applications
C19_Witness ==
    /\ unit = "apps" /\ runs = 2
    /\ rawInput.readable /\ Len(rawInput.apps) = 2
    /\ before.exists /\ onDisk.summary.totalApps = 2

\* C20: the process command ends with a non-zero exit status when the
\* artifacts directory is missing, and the report command ends with a non-zero
\* exit status when the artifacts directory or the processed directory is
\* missing.
C20_SetupErrorsExitNonZero ==
    /\ (cmd \notin {"idle", "process"} /\ ~artifactsDir) => ProcessExitStatus > 0
    /\ (reportCb # "none" /\ (~artifactsDir \/ ~ProcessedDirExists)) => ReportExit > 0

----------------------------------------------------------------------------
(* generateReport's diff: claims *)

\* the entries of a diff, as a set
Entries(d) == {d[k] : k \in 1..Len(d)}

\* C21: the diff of a snapshot against itself has no entry: for every tree T
\* a report whose diff directory holds the records of its own directory gets
\* an empty diff.
C21_SelfDiffEmpty ==
    (Ran("diff") /\ rawInput.dir = rawInput.diffdir) => onDisk.diff = <<>>

\* a nested tree has been diffed against itself
C21_Witness ==
    /\ Ran("diff")
    /\ rawInput.dir = rawInput.diffdir
    /\ rawInput.dir.t = "map" /\ Len(rawInput.dir.kids) = 2
    /\ onDisk.diff = <<>>

\* an entry with the direction of its values reversed
Flip(e) ==
    [kind  |-> CASE e.kind = "N" -> "D" [] e.kind = "D" -> "N" [] OTHER -> e.kind,
     path  |-> e.path,
     index |-> e.index,
     item  |-> CASE e.item = "N" -> "D" [] e.item = "D" -> "N" [] OTHER -> e.item,
     lhs   |-> e.rhs,
     rhs   |-> e.lhs]

\* C22: diff(A,B) and diff(B,A) have the same paths; an added entry of one is
\* a removed entry of the other at the same path, and an edited entry is in
\* both with its old and new values swapped.
C22_DiffAntisymmetric ==
    Ran("diff") =>
        {Flip(e) : e \in Entries(onDisk.diff)}
            = Entries(generateReportDiff(rawInput.diffdir, rawInput.dir))

\* two trees whose diff has an edit and an addition
C22_Witness ==
    /\ Ran("diff")
    /\ \E e \in Entries(onDisk.diff) : e.kind = "E"
    /\ \E e \in Entries(onDisk.diff) : e.kind = "N" \/ (e.kind = "A" /\ e.item = "N")

\* the elements of a sequence node
Elems(node) == [i \in 1..Len(node.kids) |-> node.kids[i][2]]

Min(a, b) == IF a < b THEN a ELSE b
Max(a, b) == IF a < b THEN b ELSE a

\* C23: two sequences are compared by position: the elements at an index both
\* have are compared with each other (an entry at that index path exactly when
\* they differ), and every further element of the longer one gives exactly one
\* entry at its index, an addition when the rhs is longer, a removal when the
\* lhs is; nothing is aligned by content, so one element inserted at the front
\* shows as edits at the shifted indices that differ plus one trailing addition.
C23_SequencesByPosition ==
    (Ran("diff") /\ rawInput.dir.t = "seq" /\ rawInput.diffdir.t = "seq") =>
        LET L == Elems(rawInput.dir)
            R == Elems(rawInput.diffdir)
            d == Entries(onDisk.diff)
            at(i) == {e \in d : \/ (e.kind = "A" /\ e.path = <<"record">>
                                        /\ e.index = IndexKeys[i])
                                \/ (Len(e.path) >= 2 /\ e.path[1] = "record"
                                        /\ e.path[2] = IndexKeys[i])}
        IN  /\ \A i \in 1..Min(Len(L), Len(R)) :
                  /\ (L[i] = R[i]) <=> (at(i) = {})
                  /\ \A e \in at(i) : e.kind # "A"
            /\ \A i \in (Min(Len(L), Len(R)) + 1)..Max(Len(L), Len(R)) :
                  /\ Cardinality(at(i)) = 1
                  /\ \A e \in at(i) :
                        /\ e.kind = "A"
                        /\ e.item = IF Len(R) > Len(L) THEN "N" ELSE "D"
            /\ \A e \in d : e.path = <<"record">> => e.kind = "A"

\* a list diffed against the same list with one different element put in front
C23_Witness ==
    /\ Ran("diff")
    /\ rawInput.dir = SeqNode(<<Scalar("1")>>)
    /\ rawInput.diffdir = SeqNode(<<Scalar("2"), Scalar("1")>>)
    /\ Cardinality({e \in Entries(onDisk.diff) : e.kind = "E"}) = 1
    /\ Cardinality({e \in Entries(onDisk.diff) : e.kind = "A" /\ e.item = "N"}) = 1

----------------------------------------------------------------------------
(* Files, record shapes, working directory: claims *)

\* C24: within one extraction no two capture processes (idevicesyslog, each
\* ideviceinfo domain, ideviceinstaller, ideviceprovision, idevicecrashreport,
\* idevicebackup2) write the same raw artifact file, and no two of the
\* normalizers and findIssues write the same processed file.
C24_FilesOwnedExclusively ==
    /\ \A p, q \in SeqToSet(spawnLog) :
          p # q => FileOpened(OutFile(p)) # FileOpened(OutFile(q))
    /\ \A a, b \in ProcessedFiles : a # b => ProcessedFile(a) # ProcessedFile(b)

\* C25: every processed record written from a raw artifact that was read and
\* parsed has both a details and a summary sub-tree, and every test of
\* findIssues reads a summary field.
C25_DetailsAndSummary ==
    /\ \A u \in Artifacts :
          (Ran(u) /\ onDisk.exists /\ Parsed(u, rawInput))
             => {"details", "summary"} \subseteq RecordKeys(u, onDisk)
    /\ Ran("issues") => \A i \in 1..Len(RuleReads) : RuleReads[i][2] = "summary"

\* C26: when setWorkingDirectory returns, it returns
\* <base>/<device-id>/<capture-timestamp>, and that directory and its artifacts
\* subdirectory exist; called again with the same arguments it returns the
\* same path, creates nothing and does not fail.
C26_WorkingDirectoryIdempotent ==
    /\ (Ran("workdir") /\ onDisk.returned) =>
          /\ onDisk.path = WorkingDir(rawInput.userOutputDir)
                             \o <<rawInput.udid, rawInput.currentEpoch>>
          /\ onDisk.path \in onDisk.dirs
          /\ Append(onDisk.path, "artifacts") \in onDisk.dirs
    /\ (unit = "workdir" /\ runs >= 2 /\ before.returned) =>
          /\ onDisk.returned
          /\ onDisk.path = before.path
          /\ onDisk.dirs = before.dirs

\* setWorkingDirectory has been called twice where only the base existed
C26_Witness ==
    /\ unit = "workdir" /\ runs = 2
    /\ rawInput.dirs = {<<"out">>}
    /\ before.returned /\ onDisk.returned
    /\ <<"out", "udid", "1484815625000", "artifacts">> \in onDisk.dirs

----------------------------------------------------------------------------
(* Callbacks and completion: claims *)

\* C27: each bounded task's process is spawned at most once, a task whose
\* process has exited has delivered an outcome through its callback, and the
\* callback of a task is never invoked a second time, whatever the order of
\* 'end' and 'close' and whatever the exit status.
C27_CallbackExactlyOnce ==
    /\ \A i, j \in 1..Len(spawnLog) : spawnLog[i] = spawnLog[j] => i = j
    /\ \A p \in TaskProcs : procState[p] = "closed" => called[TaskOf(p)]
    /\ ~crashed

\* C28: findIssues has started only when every normalizer has called back, and
\* then the record of every normalizer that reported its write is complete on
\* disk.
C28_IssuesAfterNormalizers ==
    issuesState # "none" =>
        \A a \in Artifacts :
            /\ norm[a] \in {"done", "failed"}
            /\ norm[a] = "done" => pfile[a] = Content(a, raw[a])

\* findIssues ran to its end after six normalizers wrote their records
C28_Witness ==
    /\ issuesState = "done"
    /\ \A a \in Artifacts : norm[a] = "done" /\ pfile[a] = "full"

\* C29: when every normalizer has succeeded, the err processArtifacts hands
\* its callback is null or absent, so the process command's if (err) takes the
\* branch that logs the results and not the one that logs an error.
C29_ProcessArtifactsNoError ==
    (paCallback # "none" /\ \A a \in Artifacts : norm[a] = "done")
        => ~Truthy(paCallback)

\* C30: with a syslog duration supplied idevicesyslog is never signalled; when
\* every task of async.parallel has called back, completion has been reported,
\* whether or not idevicesyslog has ended; and when completion is reported the
\* signal has been sent exactly if no duration was supplied.
C30_SignalIffNoDuration ==
    /\ syslogSignalled => options.syslogTimeout = Undefined
    /\ (udidStatus = "ok" /\ \A t \in Tasks : called[t]) => extractCb = "complete"
    /\ extractCb = "complete" =>
          (syslogSignalled <=> options.syslogTimeout = Undefined)

\* completion reported with a duration supplied while idevicesyslog runs on
C30_Witness ==
    /\ options.syslogTimeout = "1"
    /\ extractCb = "complete"
    /\ ~syslogSignalled
    /\ procState[Syslog] = "running"
    /\ \A p \in TaskProcs \ {BackupProc} : procState[p] = "closed"

====
